---- MODULE Spec2Model ----
(***************************************************************************)
(* Model of the metrics aggregation and reporting pipeline of              *)
(* linux-laptop-power:                                                     *)
(*   scripts/benchmark_resources/generate_report.py  (parse_csv, avg,      *)
(*       peak, generate_report)                                            *)
(*   benchmark_resources/compare_results.py  (parse_csv, avg,              *)
(*       aggregate_by_power_mode, create_comparison_charts)                *)
(*                                                                         *)
(* Floats are modelled as exact rationals [n, d] in lowest terms; CSV      *)
(* cells are strings and float() is a partial lookup on them.  A Python    *)
(* dict is a sequence of [key, value] entries in insertion order.          *)
(***************************************************************************)
EXTENDS Integers, Sequences, FiniteSets, TLC

(***************************************************************************)
(* Bounds of the model.                                                    *)
(***************************************************************************)
\* rows read from one CSV by the streamed parser
MaxRows == 2
\* rows of one CSV of a result set handed to create_comparison_charts
MaxTableRows == 2
\* result directories handed to create_comparison_charts
MaxDirs == 3

(***************************************************************************)
(* Strings of the input alphabet.                                          *)
(***************************************************************************)
PhaseNames == {"light_bat", "light_ac", "heavy_ac", "idle", "mix_bat_ac"}
NumericCells == {"10", "20"}
BadCell == "abc"
DesktopNames == {"KDE", "GNOME"}
\* key of phases[None]: the phase of a row too short to reach the phase column
NoneKey == "None"

(***************************************************************************)
(* float(): defined on the numeric strings, ValueError on the others.      *)
(***************************************************************************)
FloatTable == [s \in {"0", "10", "20"} |-> CASE s = "0" -> 0 [] s = "10" -> 10 [] s = "20" -> 20]

IsNumeric(s) == s \in DOMAIN FloatTable

Float(s) == FloatTable[s]

(***************************************************************************)
(* The field lists of the two copies of parse_csv, in conversion order.    *)
(***************************************************************************)
FIELDS_REPORT ==
  << [field |-> "power",      col |-> "power_w"],
     [field |-> "cpu",        col |-> "cpu_pct"],
     [field |-> "temp",       col |-> "cpu_temp_c"],
     [field |-> "mem",        col |-> "mem_pct"],
     [field |-> "load",       col |-> "load_1m"],
     [field |-> "disk_read",  col |-> "disk_read_mbs"],
     [field |-> "disk_write", col |-> "disk_write_mbs"],
     [field |-> "net_rx",     col |-> "net_rx_kbs"],
     [field |-> "net_tx",     col |-> "net_tx_kbs"] >>

FIELDS_CHART ==
  FIELDS_REPORT \o
  << [field |-> "cpu_freq",         col |-> "cpu_freq_mhz"],
     [field |-> "context_switches", col |-> "context_switches"] >>

FieldsOf(c) == IF c = "report" THEN FIELDS_REPORT ELSE FIELDS_CHART

FieldNames(fc) == {fc[i].field : i \in 1..Len(fc)}

\* the value a defaultdict factory gives a new phase
NewPhaseData(fc) == [f \in FieldNames(fc) |-> <<>>]

(***************************************************************************)
(* csv.DictReader: header, rows, row[col].                                 *)
(***************************************************************************)
FullHeader(fc) == <<"timestamp", "phase">> \o [i \in 1..Len(fc) |-> fc[i].col]

RemoveCol(h, c) == SelectSeq(h, LAMBDA x : x # c)

\* headers of the input alphabet: complete, or lacking one column
Headers(fc) ==
  {FullHeader(fc)} \cup {RemoveCol(FullHeader(fc), c) : c \in {"phase", "cpu_pct", fc[Len(fc)].col}}

ColIndex(h, c) == CHOOSE i \in 1..Len(h) : h[i] = c

HasCol(h, c) == \E i \in 1..Len(h) : h[i] = c

\* row[col]: KeyError when the header lacks col, None (restval) when the row
\* is shorter than the header, the cell's string otherwise
Lookup(h, r, c) ==
  IF ~HasCol(h, c) THEN [kind |-> "KeyError", s |-> ""]
  ELSE IF ColIndex(h, c) > Len(r) THEN [kind |-> "None", s |-> ""]
  ELSE [kind |-> "str", s |-> r[ColIndex(h, c)]]

(***************************************************************************)
(* Dict helpers (sequence of [key, value] entries, insertion order).       *)
(***************************************************************************)
Keys(d) == {d[i].key : i \in 1..Len(d)}

KeyIndex(d, k) == CHOOSE i \in 1..Len(d) : d[i].key = k

DictGet(d, k) == d[KeyIndex(d, k)].value

DictSetMoveToEnd(d, k, v) ==
  SelectSeq(d, LAMBDA e : e.key # k) \o <<[key |-> k, value |-> v]>>

DictSetAlwaysAppend(d, k, v) == Append(d, [key |-> k, value |-> v])

\* d[k] = v: an existing key keeps its position, a new key goes last
DictSet(d, k, v) ==
  IF k \in Keys(d)
  THEN [d EXCEPT ![KeyIndex(d, k)] = [key |-> k, value |-> v]]
  ELSE Append(d, [key |-> k, value |-> v])

\* defaultdict __getitem__: reading a missing key inserts the default
Touch(d, k, default) == IF k \in Keys(d) THEN d ELSE Append(d, [key |-> k, value |-> default])

(***************************************************************************)
(* parse_csv, one row.                                                     *)
(***************************************************************************)
\* phases[name][field].append(x)
AppendSample(ph, name, field, x) ==
  [ph EXCEPT ![KeyIndex(ph, name)].value[field] = Append(@, x)]

\* the statements of the try block from the i-th on: each one evaluates
\* phases[phase][field].append, then row[col] (KeyError), then float()
\* (ValueError on a non-numeric string, TypeError on None), then appends;
\* "except (ValueError, KeyError): continue" leaves what was appended
RECURSIVE Convert(_, _, _, _, _, _)
Convert(fc, h, r, ph, name, i) ==
  IF i > Len(fc) THEN [phases |-> ph, outcome |-> "admitted"]
  ELSE LET cell == Lookup(h, r, fc[i].col) IN
       IF cell.kind = "KeyError" THEN [phases |-> ph, outcome |-> "dropped"]
       ELSE IF cell.kind = "None" THEN [phases |-> ph, outcome |-> "raised"]
       ELSE IF ~IsNumeric(cell.s) THEN [phases |-> ph, outcome |-> "dropped"]
       ELSE Convert(fc, h, r, AppendSample(ph, name, fc[i].field, Float(cell.s)), name, i + 1)

\* the body of "for row in reader": phase = row['phase'] is outside the try
ParseRow(fc, h, r, ph) ==
  LET p == Lookup(h, r, "phase") IN
  IF p.kind = "KeyError" THEN [phases |-> ph, outcome |-> "raised"]
  ELSE LET name == IF p.kind = "None" THEN NoneKey ELSE p.s
       IN Convert(fc, h, r, Touch(ph, name, NewPhaseData(fc)), name, 1)

\* parse_csv over a whole table; a raised exception ends the call
RECURSIVE ParseCsv(_, _, _, _)
ParseCsv(fc, h, rows, ph) ==
  IF rows = <<>> THEN [phases |-> ph, outcome |-> "returned"]
  ELSE LET one == ParseRow(fc, h, Head(rows), ph) IN
       IF one.outcome = "raised" THEN [phases |-> ph, outcome |-> "raised"]
       ELSE ParseCsv(fc, h, Tail(rows), one.phases)

(***************************************************************************)
(* Rows of the input alphabet.                                             *)
(***************************************************************************)
\* a complete row: every metric cell holds the numeric string v
GoodRow(h, phase, v) ==
  [i \in 1..Len(h) |-> IF h[i] = "timestamp" THEN "t" ELSE IF h[i] = "phase" THEN phase ELSE v]

\* positions of the header at which a row is made defective
BadPositions(h) == {3, 5}

\* lengths to which a row is cut short (a row of length 0 is a blank line,
\* which DictReader skips)
ShortLengths == {1, 4}

NonNumericRow(h, phase, v, j) == [GoodRow(h, phase, v) EXCEPT ![j] = BadCell]

ShortRow(h, phase, v, n) == SubSeq(GoodRow(h, phase, v), 1, n)

RowsOver(h, names, cells) ==
  {GoodRow(h, p, v) : p \in names, v \in cells}
  \cup {NonNumericRow(h, p, v, j) : p \in names, v \in cells, j \in BadPositions(h)}
  \cup {ShortRow(h, p, v, n) : p \in names, v \in cells, n \in ShortLengths}

(***************************************************************************)
(* Arithmetic: exact rationals for Python floats.                          *)
(***************************************************************************)
RECURSIVE GCD(_, _)
GCD(a, b) == IF b = 0 THEN a ELSE GCD(b, a % b)

Rat(n, d) == LET g == GCD(n, d) IN [n |-> n \div g, d |-> d \div g]

RatLE(x, y) == x.n * y.d <= y.n * x.d

RatMul(x, y) == Rat(x.n * y.n, x.d * y.d)

RECURSIVE Sum(_)
Sum(lst) == IF lst = <<>> THEN 0 ELSE Head(lst) + Sum(Tail(lst))

\* max() of a non-empty sequence of integers
MaxInt(lst) == CHOOSE x \in {lst[i] : i \in 1..Len(lst)} : \A i \in 1..Len(lst) : lst[i] <= x

\* max() of a non-empty sequence of rationals
MaxRat(lst) == CHOOSE x \in {lst[i] : i \in 1..Len(lst)} : \A i \in 1..Len(lst) : RatLE(lst[i], x)

\* avg(lst): sum(lst) / len(lst) if lst else 0
avg(lst) == IF lst # <<>> THEN Rat(Sum(lst), Len(lst)) ELSE Rat(0, 1)

\* peak(lst): max(lst) if lst else 0
peak(lst) == IF lst # <<>> THEN Rat(MaxInt(lst), 1) ELSE Rat(0, 1)

(***************************************************************************)
(* Formatting: f"{x:.2f}" and f"{x:.1f}" give a decimal string, modelled   *)
(* as the number of decimals and the rounded value scaled by 10^decimals   *)
(* (round half to even; every tie of the model is a dyadic rational).      *)
(***************************************************************************)
Pow10(dp) == IF dp = 0 THEN 1 ELSE IF dp = 1 THEN 10 ELSE 100

RoundHalfEven(n, d) ==
  LET q == n \div d
      r == n % d
  IN IF 2 * r < d THEN q
     ELSE IF 2 * r > d THEN q + 1
     ELSE IF q % 2 = 0 THEN q ELSE q + 1

Fmt(x, dp) == [kind |-> "num", dp |-> dp, scaled |-> RoundHalfEven(x.n * Pow10(dp), x.d)]

NA == [kind |-> "N/A", dp |-> 0, scaled |-> 0]

Dash == [kind |-> "-", dp |-> 0, scaled |-> 0]

(***************************************************************************)
(* Substring tests on phase names ('_bat' in k, '_ac' in k), tabulated     *)
(* over the names of the model and the canonical names.                    *)
(***************************************************************************)
HasBat(name) == name \in {"light_bat", "medium_bat", "heavy_bat", "ultra_bat", "mix_bat_ac"}

HasAc(name) == name \in {"light_ac", "medium_ac", "heavy_ac", "ultra_ac", "mix_bat_ac"}

(***************************************************************************)
(* Buckets: defaultdict(list) from metric name to samples, modelled as a   *)
(* function whose domain is the set of keys the dict holds.                *)
(***************************************************************************)
EmptyBucket == [m \in {} |-> <<>>]

\* b[m] read through the defaultdict: [] for a key never written
BucketGet(b, m) == IF m \in DOMAIN b THEN b[m] ELSE <<>>

\* for metric, values in data.items(): b[metric].extend(values)
BucketExtend(b, data) ==
  [m \in (DOMAIN b) \cup (DOMAIN data) |->
     BucketGet(b, m) \o (IF m \in DOMAIN data THEN data[m] ELSE <<>>)]

RECURSIVE ExtendAll(_, _)
ExtendAll(b, d) ==
  IF d = <<>> THEN b ELSE ExtendAll(BucketExtend(b, Head(d).value), Tail(d))

(***************************************************************************)
(* compare_results.py: aggregate_by_power_mode.                            *)
(***************************************************************************)
\* target = battery if '_bat' in phase_name else ac
Target(name) == IF HasBat(name) THEN "battery" ELSE "ac"

RECURSIVE AggregateFrom(_, _, _)
AggregateFrom(ph, bat, acb) ==
  IF ph = <<>> THEN [battery |-> bat, ac |-> acb]
  ELSE IF Target(Head(ph).key) = "battery"
       THEN AggregateFrom(Tail(ph), BucketExtend(bat, Head(ph).value), acb)
       ELSE AggregateFrom(Tail(ph), bat, BucketExtend(acb, Head(ph).value))

aggregate_by_power_mode(ph) == AggregateFrom(ph, EmptyBucket, EmptyBucket)

(***************************************************************************)
(* generate_report.py: generate_report.                                    *)
(***************************************************************************)
\* {k: v for k, v in phases.items() if '_bat' in k}
battery_phases(ph) == SelectSeq(ph, LAMBDA e : HasBat(e.key))

\* {k: v for k, v in phases.items() if '_ac' in k}
ac_phases(ph) == SelectSeq(ph, LAMBDA e : HasAc(e.key))

all_battery(ph) == ExtendAll(EmptyBucket, battery_phases(ph))

all_ac(ph) == ExtendAll(EmptyBucket, ac_phases(ph))

BATTERY_ORDER == <<"light_bat", "medium_bat", "heavy_bat", "ultra_bat">>

AC_ORDER == <<"light_ac", "medium_ac", "heavy_ac", "ultra_ac">>

phase_names(k) ==
  CASE k = "light_bat" -> "Light (Battery)"
    [] k = "medium_bat" -> "Medium-Heavy (Battery)"
    [] k = "heavy_bat" -> "Heavy (Battery)"
    [] k = "ultra_bat" -> "Ultra-Heavy (Battery)"
    [] k = "light_ac" -> "Light (AC)"
    [] k = "medium_ac" -> "Medium-Heavy (AC)"
    [] k = "heavy_ac" -> "Heavy (AC)"
    [] k = "ultra_ac" -> "Ultra-Heavy (AC)"
    [] OTHER -> k

\* one row of a per-phase table
PhaseRow(k, data) ==
  [key |-> k, name |-> phase_names(k),
   cells |-> << Fmt(avg(data["power"]), 2), Fmt(peak(data["power"]), 2),
                Fmt(avg(data["cpu"]), 1), Fmt(avg(data["temp"]), 1),
                Fmt(avg(data["mem"]), 1) >>]

PlaceholderRow ==
  [key |-> "", name |-> "*(Skipped - validation mode)*",
   cells |-> <<Dash, Dash, Dash, Dash, Dash>>]

TableRowsInsertionOrder(order, d) == [i \in 1..Len(d) |-> PhaseRow(d[i].key, d[i].value)]

\* for phase_key in order: if phase_key in d: report += row
RECURSIVE TableRows(_, _)
TableRows(order, d) ==
  IF order = <<>> THEN <<>>
  ELSE (IF Head(order) \in Keys(d)
        THEN <<PhaseRow(Head(order), DictGet(d, Head(order)))>> ELSE <<>>)
       \o TableRows(Tail(order), d)

BatteryTableWithPlaceholder(ph) ==
  TableRows(BATTERY_ORDER, battery_phases(ph))
  \o (IF battery_phases(ph) = <<>> THEN <<PlaceholderRow>> ELSE <<>>)

\* the rows under "### Battery Phases"
BatteryTable(ph) == TableRows(BATTERY_ORDER, battery_phases(ph))

\* the rows under "### AC Phases", with the row added "if not ac_phases"
AcTable(ph) ==
  TableRows(AC_ORDER, ac_phases(ph))
  \o (IF ac_phases(ph) = <<>> THEN <<PlaceholderRow>> ELSE <<>>)

\* the pre-calculated AC values: formatted if the list is non-empty, else 'N/A'
AcCell(x, lst, dp) == IF lst # <<>> THEN Fmt(x, dp) ELSE NA

SummaryRow(title, field, isPeak, dp, bat, acb) ==
  LET bl == BucketGet(bat, field)
      al == BucketGet(acb, field)
  IN [metric |-> title, field |-> field,
      battery |-> Fmt(IF isPeak THEN peak(bl) ELSE avg(bl), dp),
      ac |-> AcCell(IF isPeak THEN peak(al) ELSE avg(al), al, dp)]

OverallSummary(bat, acb) ==
  << SummaryRow("Avg Power (W)", "power", FALSE, 2, bat, acb),
     SummaryRow("Peak Power (W)", "power", TRUE, 2, bat, acb),
     SummaryRow("Avg CPU (%)", "cpu", FALSE, 1, bat, acb),
     SummaryRow("Avg Temp (C)", "temp", FALSE, 1, bat, acb),
     SummaryRow("Avg Memory (%)", "mem", FALSE, 1, bat, acb),
     SummaryRow("Avg Load (1m)", "load", FALSE, 2, bat, acb) >>

IOSummary(bat, acb) ==
  << SummaryRow("Avg Disk Read (MB/s)", "disk_read", FALSE, 2, bat, acb),
     SummaryRow("Avg Disk Write (MB/s)", "disk_write", FALSE, 2, bat, acb),
     SummaryRow("Avg Net RX (KB/s)", "net_rx", FALSE, 2, bat, acb),
     SummaryRow("Avg Net TX (KB/s)", "net_tx", FALSE, 2, bat, acb) >>

NoReport == [written |-> FALSE, batteryRows |-> <<>>, acRows |-> <<>>,
             overall |-> <<>>, io |-> <<>>, graphs |-> FALSE]

\* the document written to output_path; dashboard: dashboard.png exists
\* next to it (the system-information block is copied through and is not
\* part of the model)
Report(ph, dashboard) ==
  [written |-> TRUE,
   batteryRows |-> BatteryTable(ph),
   acRows |-> AcTable(ph),
   overall |-> OverallSummary(all_battery(ph), all_ac(ph)),
   io |-> IOSummary(all_battery(ph), all_ac(ph)),
   graphs |-> dashboard]

(***************************************************************************)
(* compare_results.py: create_comparison_charts.                           *)
(***************************************************************************)
\* {metric: avg(values) for metric, values in bucket.items()}
Means(b) == [m \in DOMAIN b |-> avg(b[m])]

\* the body of "for rdir in results_dirs" after aggregate_by_power_mode:
\* a bucket is truthy when it holds a key
Collect(d, de, bat, acb) ==
  LET d1 == IF DOMAIN bat # {} THEN DictSet(d, de \o "_Battery", Means(bat)) ELSE d
  IN IF DOMAIN acb # {} THEN DictSet(d1, de \o "_AC", Means(acb)) ELSE d1

metrics_config == <<"power", "cpu", "temp", "mem", "load", "disk_read", "disk_write">>

\* colors[:len(labels)]
PaletteSize == 4

Labels(d) == [i \in 1..Len(d) |-> d[i].key]

\* [all_data[label].get(metric_key, 0) for label in labels]
Values(d, m) ==
  [i \in 1..Len(d) |-> IF m \in DOMAIN d[i].value THEN d[i].value[m] ELSE Rat(0, 1)]

\* ax.set_ylim(0, max(values) * 1.2 if values else 1)
YLim(values) ==
  IF values # <<>> THEN RatMul(MaxRat(values), Rat(12, 10)) ELSE Rat(1, 1)

BarChart(d, m) ==
  [metric |-> m, labels |-> Labels(d), values |-> Values(d, m),
   ylim |-> YLim(Values(d, m)),
   ncolors |-> IF Len(d) < PaletteSize THEN Len(d) ELSE PaletteSize]

\* the seven <metric>_comparison.png charts
BarCharts(d) == [i \in 1..Len(metrics_config) |-> BarChart(d, metrics_config[i])]

\* sequences of at most n elements of S
RECURSIVE SeqsUpTo(_, _)
SeqsUpTo(S, n) ==
  IF n = 0 THEN {<<>>}
  ELSE SeqsUpTo(S, n - 1) \cup {Append(t, x) : t \in {u \in SeqsUpTo(S, n - 1) : Len(u) = n - 1}, x \in S}

\* rows of the CSVs of the result sets: complete rows, a row with a
\* non-numeric cell and a short row
ChartRows(h) ==
  {GoodRow(h, "light_bat", "0"), GoodRow(h, "light_bat", "10"),
   GoodRow(h, "light_ac", "10"), NonNumericRow(h, "light_ac", "10", 5),
   ShortRow(h, "light_ac", "10", 4)}

ChartTables == SeqsUpTo(ChartRows(FullHeader(FIELDS_CHART)), MaxTableRows)

\* parse_csv and aggregate_by_power_mode applied to each table
ChartParsed ==
  [t \in ChartTables |->
     LET res == ParseCsv(FIELDS_CHART, FullHeader(FIELDS_CHART), t, <<>>)
         agg == aggregate_by_power_mode(res.phases)
     IN [outcome |-> res.outcome, names |-> Keys(res.phases),
         battery |-> agg.battery, ac |-> agg.ac]]

(***************************************************************************)
(* State.                                                                  *)
(***************************************************************************)
VARIABLES
  copy,            \* which script runs: "report" or "chart"
  header,          \* header row of the CSV being parsed
  phases,          \* parse_csv's phases dict
  pc,              \* position of the running script
  row,             \* the row read last
  outcome,         \* what happened to it: admitted, dropped, raised
  admitted,        \* phase values of the rows admitted so far
  nrows,           \* rows read so far
  battery,         \* battery bucket (all_battery / battery)
  ac,              \* AC bucket (all_ac / ac)
  report,          \* the report written by generate_report
  HAS_MATPLOTLIB,  \* result of the import at the top of compare_results.py
  all_data,        \* create_comparison_charts' all_data dict
  processed,       \* the result directories iterated so far, with what each assigned
  charts           \* the bar charts drawn

vars == <<copy, header, phases, pc, row, outcome, admitted, nrows, battery, ac,
          report, HAS_MATPLOTLIB, all_data, processed, charts>>

parseVars == <<header, phases, row, outcome, admitted, nrows>>

chartVars == <<HAS_MATPLOTLIB, all_data, processed, charts>>

(***************************************************************************)
(* Specification Spec: one run of parse_csv over a streamed CSV, followed  *)
(* by the rest of generate_report (report copy) or by                      *)
(* aggregate_by_power_mode (chart copy).                                   *)
(***************************************************************************)
Init ==
  /\ copy \in {"report", "chart"}
  /\ header \in Headers(FieldsOf(copy))
  /\ phases = <<>>
  /\ pc = "reading"
  /\ row = <<>>
  /\ outcome = "none"
  /\ admitted = {}
  /\ nrows = 0
  /\ battery = EmptyBucket
  /\ ac = EmptyBucket
  /\ report = NoReport
  /\ HAS_MATPLOTLIB = TRUE
  /\ all_data = <<>>
  /\ processed = <<>>
  /\ charts = <<>>

\* one iteration of "for row in reader"
ReadRow ==
  /\ pc = "reading"
  /\ nrows < MaxRows
  /\ \E r \in RowsOver(header, PhaseNames, NumericCells) :
       LET res == ParseRow(FieldsOf(copy), header, r, phases) IN
       /\ row' = r
       /\ outcome' = res.outcome
       /\ phases' = res.phases
       /\ admitted' = IF res.outcome = "admitted"
                      THEN admitted \cup {Lookup(header, r, "phase").s} ELSE admitted
       /\ pc' = IF res.outcome = "raised" THEN "raised" ELSE "reading"
  /\ nrows' = nrows + 1
  /\ UNCHANGED <<copy, header, battery, ac, report, chartVars>>

\* the reader is exhausted: return phases
EndOfFile ==
  /\ pc = "reading"
  /\ pc' = "returned"
  /\ UNCHANGED <<copy, parseVars, battery, ac, report, chartVars>>

\* generate_report after its call of parse_csv
GenerateReport ==
  /\ pc = "returned"
  /\ copy = "report"
  /\ battery' = all_battery(phases)
  /\ ac' = all_ac(phases)
  /\ \E dashboard \in BOOLEAN : report' = Report(phases, dashboard)
  /\ pc' = "done"
  /\ UNCHANGED <<copy, parseVars, chartVars>>

\* battery, ac = aggregate_by_power_mode(phases)
AggregateByPowerMode ==
  /\ pc = "returned"
  /\ copy = "chart"
  /\ battery' = aggregate_by_power_mode(phases).battery
  /\ ac' = aggregate_by_power_mode(phases).ac
  /\ pc' = "done"
  /\ UNCHANGED <<copy, parseVars, report, chartVars>>

Next == ReadRow \/ EndOfFile \/ GenerateReport \/ AggregateByPowerMode

Spec == Init /\ [][Next]_vars

(***************************************************************************)
(* Specification SpecChart: one call of create_comparison_charts over a    *)
(* list of result directories.                                             *)
(***************************************************************************)
ChartInit ==
  /\ copy = "chart"
  /\ header = FullHeader(FIELDS_CHART)
  /\ phases = <<>>
  /\ pc = "collecting"
  /\ row = <<>>
  /\ outcome = "none"
  /\ admitted = {}
  /\ nrows = 0
  /\ battery = EmptyBucket
  /\ ac = EmptyBucket
  /\ report = NoReport
  /\ HAS_MATPLOTLIB \in BOOLEAN
  /\ all_data = <<>>
  /\ processed = <<>>
  /\ charts = <<>>

\* "if not HAS_MATPLOTLIB: return"
CannotCreate ==
  /\ pc = "collecting"
  /\ ~HAS_MATPLOTLIB
  /\ pc' = "nomatplotlib"
  /\ UNCHANGED <<copy, parseVars, battery, ac, report, chartVars>>

\* an iteration whose raw_metrics.csv does not exist: continue
SkipDir ==
  /\ pc = "collecting"
  /\ HAS_MATPLOTLIB
  /\ Len(processed) < MaxDirs
  /\ \E de \in DesktopNames :
       processed' = Append(processed, [de |-> de, csv |-> FALSE, names |-> {}, assigned |-> <<>>])
  /\ UNCHANGED <<copy, parseVars, pc, battery, ac, report, HAS_MATPLOTLIB, all_data, charts>>

\* an iteration over a directory that has a raw_metrics.csv
ProcessDir ==
  /\ pc = "collecting"
  /\ HAS_MATPLOTLIB
  /\ Len(processed) < MaxDirs
  /\ \E de \in DesktopNames, table \in ChartTables :
       LET res == ChartParsed[table] IN
       IF res.outcome = "raised"
       THEN /\ pc' = "raised"
            /\ UNCHANGED <<all_data, processed>>
       ELSE /\ pc' = pc
            /\ all_data' = Collect(all_data, de, res.battery, res.ac)
            /\ processed' = Append(processed,
                  [de |-> de, csv |-> TRUE, names |-> res.names,
                   assigned |->
                     (IF DOMAIN res.battery # {}
                      THEN <<[key |-> de \o "_Battery", value |-> Means(res.battery)]>> ELSE <<>>)
                     \o (IF DOMAIN res.ac # {}
                         THEN <<[key |-> de \o "_AC", value |-> Means(res.ac)]>> ELSE <<>>)])
  /\ UNCHANGED <<copy, parseVars, battery, ac, report, HAS_MATPLOTLIB, charts>>

\* the list is exhausted and all_data is empty: "No data to compare"
NoData ==
  /\ pc = "collecting"
  /\ HAS_MATPLOTLIB
  /\ all_data = <<>>
  /\ pc' = "nodata"
  /\ UNCHANGED <<copy, parseVars, battery, ac, report, chartVars>>

\* the list is exhausted: draw the charts
RenderCharts ==
  /\ pc = "collecting"
  /\ HAS_MATPLOTLIB
  /\ all_data # <<>>
  /\ charts' = BarCharts(all_data)
  /\ pc' = "rendered"
  /\ UNCHANGED <<copy, parseVars, battery, ac, report, HAS_MATPLOTLIB, all_data, processed>>

ChartNext == CannotCreate \/ SkipDir \/ ProcessDir \/ NoData \/ RenderCharts

SpecChart == ChartInit /\ [][ChartNext]_vars

(***************************************************************************)
(* Properties.                                                             *)
(***************************************************************************)
\* the samples of field f of phase k in mapping ph, none if k is not a key
SeqOf(ph, k, f) == IF k \in Keys(ph) THEN DictGet(ph, k)[f] ELSE <<>>

AllFields == FieldNames(FieldsOf(copy))

\* a step of ReadRow
RowRead == nrows' = nrows + 1

\* C1: a row with an absent or non-numeric metric field is skipped as a
\* whole: processing it leaves every field sequence of every phase as it was.
C1_BadRowSkippedWhole ==
  [][(RowRead /\ outcome' = "dropped")
       => \A k \in Keys(phases') : \A f \in AllFields :
            SeqOf(phases', k, f) = SeqOf(phases, k, f)]_vars

\* the row read last lacks its phase field or a metric field
Malformed ==
  \/ Lookup(header, row, "phase").kind # "str"
  \/ \E i \in 1..Len(FieldsOf(copy)) :
       Lookup(header, row, FieldsOf(copy)[i].col).kind # "str"

\* C2: parse_csv never aborts on a malformed row: a row whose phase field or
\* a metric field is missing is dropped and no error reaches the caller.
C2_MalformedRowDropped ==
  (nrows > 0 /\ Malformed) => (outcome = "dropped" /\ pc # "raised")

\* C3: the phase names of the returned mapping are the phase values of the
\* admitted rows, and an admitted row adds exactly one value to each field
\* sequence of exactly one phase.
C3_PhasesAreAdmittedPhases ==
  [][/\ pc' = "returned" => Keys(phases') = admitted'
     /\ (RowRead /\ outcome' = "admitted") =>
          \E k \in Keys(phases') :
            /\ \A f \in AllFields : Len(SeqOf(phases', k, f)) = Len(SeqOf(phases, k, f)) + 1
            /\ \A j \in Keys(phases') \ {k} : \A f \in AllFields :
                 SeqOf(phases', j, f) = SeqOf(phases, j, f)]_vars

RECURSIVE FieldConcat(_, _)
FieldConcat(ph, f) ==
  IF ph = <<>> THEN <<>> ELSE Head(ph).value[f] \o FieldConcat(Tail(ph), f)

PureBat(name) == HasBat(name) /\ ~HasAc(name)

PureAc(name) == HasAc(name) /\ ~HasBat(name)

\* C4: in both bucket reductions the battery bucket holds the samples of the
\* phases named with _bat and not _ac, the AC bucket those of the phases
\* named with _ac and not _bat, and no other phase contributes to a bucket.
C4_BucketsBySuffix ==
  pc = "done" =>
    \A f \in AllFields :
      /\ BucketGet(battery, f) = FieldConcat(SelectSeq(phases, LAMBDA e : PureBat(e.key)), f)
      /\ BucketGet(ac, f) = FieldConcat(SelectSeq(phases, LAMBDA e : PureAc(e.key)), f)

\* a report was written for a table whose admitted rows are all of AC phases
AcOnlyInput ==
  /\ report.written
  /\ admitted # {}
  /\ \A n \in admitted : PureAc(n)

HasPlaceholder(rows) == \E i \in 1..Len(rows) : rows[i] = PlaceholderRow

\* one row of numbers for each canonical phase of the order that the input holds
Populated(rows, order) ==
  \A j \in 1..Len(order) :
    order[j] \in Keys(phases) =>
      /\ Cardinality({i \in 1..Len(rows) : rows[i].key = order[j]}) = 1
      /\ \A i \in 1..Len(rows) :
           rows[i].key = order[j] =>
             \A c \in 1..Len(rows[i].cells) : rows[i].cells[c].kind = "num"

\* C5 as stated: for a table with AC phases only, the Battery Phases table
\* holds the placeholder row and the AC Phases table a populated row for each
\* canonical AC phase of the input.
C5_BatteryPlaceholder ==
  AcOnlyInput => (HasPlaceholder(report.batteryRows) /\ Populated(report.acRows, AC_ORDER))

\* C5 as amended: for a table with AC phases only, the Battery Phases table
\* holds no placeholder row, and the AC Phases table a populated row for each
\* canonical AC phase of the input.
C5_NoBatteryPlaceholder ==
  AcOnlyInput => (~HasPlaceholder(report.batteryRows) /\ Populated(report.acRows, AC_ORDER))

C5_Witness ==
  /\ AcOnlyInput
  /\ Len(report.acRows) = 2
  /\ report.batteryRows = <<>>

HoldsNoSamples(b) == \A m \in DOMAIN b : b[m] = <<>>

\* C6: in the Overall Summary and I/O Summary tables a column whose bucket
\* holds no samples shows N/A in every cell, and a column whose bucket holds
\* samples shows the formatted statistic.
C6_PlaceholderPerColumn ==
  report.written =>
    \A i \in 1..Len(report.overall \o report.io) :
      LET r == (report.overall \o report.io)[i] IN
      /\ HoldsNoSamples(battery) => r.battery = NA
      /\ HoldsNoSamples(ac) => r.ac = NA
      /\ ~HoldsNoSamples(battery) => r.battery.kind = "num"
      /\ ~HoldsNoSamples(ac) => r.ac.kind = "num"

PhaseRowsOf(rows) == SelectSeq(rows, LAMBDA r : r # PlaceholderRow)

CanonIndex(order, k) == CHOOSE j \in 1..Len(order) : order[j] = k

InCanonicalOrder(rows, order) ==
  /\ \A i \in 1..Len(rows) :
       /\ \E j \in 1..Len(order) : order[j] = rows[i].key
       /\ rows[i].key \in Keys(phases)
  /\ \A i, j \in 1..Len(rows) :
       i < j => CanonIndex(order, rows[i].key) < CanonIndex(order, rows[j].key)
  /\ \A j \in 1..Len(order) :
       order[j] \in Keys(phases) => \E i \in 1..Len(rows) : rows[i].key = order[j]

\* C7: the rows of the per-phase tables are the canonical phases the input
\* holds, in canonical order; a canonical phase absent from the input and a
\* phase that is not canonical have no row.
C7_CanonicalRows ==
  report.written =>
    /\ InCanonicalOrder(PhaseRowsOf(report.batteryRows), BATTERY_ORDER)
    /\ InCanonicalOrder(PhaseRowsOf(report.acRows), AC_ORDER)

\* the input lists heavy_ac before light_ac, the table light_ac before heavy_ac
C7_Witness ==
  /\ report.written
  /\ Len(phases) = 2
  /\ phases[1].key = "heavy_ac"
  /\ phases[2].key = "light_ac"
  /\ Len(report.acRows) = 2
  /\ report.acRows[1].key = "light_ac"

BatOnly(names) == names # {} /\ \A n \in names : PureBat(n)

AcOnly(names) == names # {} /\ \A n \in names : PureAc(n)

BatAndAc(names) ==
  /\ \A n \in names : PureBat(n) \/ PureAc(n)
  /\ \E n \in names : PureBat(n)
  /\ \E n \in names : PureAc(n)

\* three result sets of one desktop environment were processed: one with
\* battery phases only, one with AC phases only, one with both
ThreeSets ==
  /\ Len(processed) = 3
  /\ \A i \in 1..3 : processed[i].csv /\ processed[i].de = processed[1].de
  /\ \E i, j, k \in 1..3 :
       /\ {i, j, k} = {1, 2, 3}
       /\ BatOnly(processed[i].names)
       /\ AcOnly(processed[j].names)
       /\ BatAndAc(processed[k].names)

\* C8 as stated: after the three result sets all_data holds four labels.
C8_FourLabels == ThreeSets => Len(all_data) = 4

\* C8 as amended: after the three result sets all_data holds two labels,
\* <de>_Battery and <de>_AC.
C8_TwoLabels ==
  ThreeSets =>
    /\ Len(all_data) = 2
    /\ Keys(all_data) = {processed[1].de \o "_Battery", processed[1].de \o "_AC"}

C8_Witness == ThreeSets /\ pc = "rendered" /\ Len(all_data) = 2

IsPositive(x) == x.n > 0

\* C9: the upper limit of the value axis of each bar chart is 1.2 times the
\* largest plotted value when a plotted value is positive, and 1 when all
\* plotted values are zero.
C9_AxisLimit ==
  pc = "rendered" =>
    \A i \in 1..Len(charts) :
      LET v == charts[i].values IN
      IF \E j \in 1..Len(v) : IsPositive(v[j])
      THEN charts[i].ylim = RatMul(MaxRat(v), Rat(12, 10))
      ELSE charts[i].ylim = Rat(1, 1)

\* the assignments to all_data made so far, in order
RECURSIVE Assignments(_)
Assignments(p) == IF p = <<>> THEN <<>> ELSE Head(p).assigned \o Assignments(Tail(p))

FirstAt(A, k) == CHOOSE i \in 1..Len(A) : A[i].key = k /\ \A j \in 1..(i - 1) : A[j].key # k

LastAt(A, k) == CHOOSE i \in 1..Len(A) : A[i].key = k /\ \A j \in (i + 1)..Len(A) : A[j].key # k

\* C10: all_data holds one entry per label assigned, with the means of the
\* last result set that assigned the label, at the position given by the
\* label's first assignment.
C10_LastWriteWins ==
  LET A == Assignments(processed) IN
  /\ Keys(all_data) = {A[i].key : i \in 1..Len(A)}
  /\ \A i, j \in 1..Len(all_data) : i # j => all_data[i].key # all_data[j].key
  /\ \A i \in 1..Len(all_data) : all_data[i].value = A[LastAt(A, all_data[i].key)].value
  /\ \A i, j \in 1..Len(all_data) :
       i < j => FirstAt(A, all_data[i].key) < FirstAt(A, all_data[j].key)

\* a label is assigned, then another one, then the first again with other means
C10_Witness ==
  LET A == Assignments(processed) IN
  /\ pc = "rendered"
  /\ \E a, b, c \in 1..Len(A) :
       /\ a < b /\ b < c
       /\ A[a].key = A[c].key
       /\ A[b].key # A[a].key
       /\ A[a].value # A[c].value

====
